---- MODULE Spec2Model ----
(***************************************************************************)
(* Alarm scheduling and triggering core of the alarm-clock application:    *)
(* the persisted alarm list (AsyncStorage key 'alarms'), the HomeScreen    *)
(* copy of it, the trigger evaluator checkForAlarms with its storage and   *)
(* notifier await points, the user handlers that write the list, and the   *)
(* web timers.  AsyncStorage serves its calls in the order they are        *)
(* issued, so a read or write takes effect in the step that issues it and  *)
(* the caller resumes in a later step.                                     *)
(***************************************************************************)
EXTENDS Integers, Sequences, FiniteSets, TLC

\* ---------------------------------------------------------------- bounds
MaxAlarms == 2      \* alarms the user creates in one behaviour
MaxDay == 6         \* last day the clock reaches (day 6 is a Saturday)
MaxOverlap == 1     \* operations that start while a given operation is in flight
MaxCaptchas == 3    \* captchas generated within one captcha challenge
MaxTries == 2       \* wrong quiz answers, wrong scans, fake-button presses in one challenge

\* --------------------------------------------------------------- inputs
\* What the user enters on the create screen: the time of day picked in the
\* time picker as hour and minute, and the repeat days selected (none: one-shot).
PickedAlarms ==
    { << 7, 30, {} >>, << 7, 30, {0} >>, << 7, 30, {6, 0} >>, << 19, 30, {} >> }
\* The "active" switch of the create screen as the user leaves it.
PickedActive == { TRUE }
\* Times of day at which the clock is observed.
ClockTimes == { <<7, 29>>, <<7, 30>> }

\* Arming on its own: the instants at which an alarm is armed (Friday to
\* Sunday, around 07:30) and the alarms armed.
ArmNows ==
    { [ day |-> d, h |-> t[1], m |-> t[2] ] :
        d \in { 5, 6, 7 }, t \in { <<7, 29>>, <<7, 30>>, <<7, 31>> } }
\* Every time of day the time picker can hold.
AllTimes == { << h, m >> : h \in 0..23, m \in 0..59 }

ArmPicked ==
    { << t[1], t[2], days >> :
        t \in { <<7, 30>>, <<19, 30>> }, days \in SUBSET { 5, 6, 0 } }

Evaluators == { "bg", "manual" }
AlarmIds == 1..MaxAlarms

VARIABLES
    isWeb,              \* Platform.OS === 'web'
    serial,             \* operations run one after the other (no overlap)
    clock,              \* the wall clock: [day, h, m]
    store,              \* AsyncStorage 'alarms': the persisted list
    uiAlarms,           \* HomeScreen's useState copy of the list
    nextId,             \* next Date.now() id
    ev,                 \* per evaluator invocation: the locals of checkForAlarms
    user,               \* the user handler in flight
    webAlarmTimeouts,   \* id -> timer armed with setTimeout
    timeouts,           \* the window's pending setTimeout callbacks
    firedSince,         \* history: alarms delivered since the user last activated them
    firedThisMinute,    \* history: alarms an evaluate pass delivered in this clock minute
    ring                \* the delivered alarm on its ringing and challenge screens

vars == << isWeb, serial, clock, store, uiAlarms, nextId, ev, user,
           webAlarmTimeouts, timeouts, firedSince, firedThisMinute, ring >>

\* ------------------------------------------------------------ time model
Abs(t) == (t.day * 1440) + (t.h * 60) + t.m
Weekday(t) == t.day % 7          \* Date.getDay(): 0 = Sunday .. 6 = Saturday
NoTime == [day |-> -1, h |-> 0, m |-> 0]

\* Number.toString() of a number below 100, as its decimal digits.
toString(n) == IF n < 10 THEN << n >> ELSE << n \div 10, n % 10 >>

\* parseInt of a string of decimal digits.
RECURSIVE parseInt(_)
parseInt(str) ==
    IF str = << >> THEN 0
    ELSE (parseInt(SubSeq(str, 1, Len(str) - 1)) * 10) + str[Len(str)]

\* CreateAlarmScreen.formatTime + the template string of saveAlarm: the text
\* "H:MM AM|PM", kept as the three parts split(' ') and split(':') recover
\* from it, the numbers as digit strings (minutes below 10 are padded "0M").
formatTime(h, m) ==
    [ hours   |-> toString(IF h % 12 = 0 THEN 12 ELSE h % 12),
      minutes |-> IF m < 10 THEN << 0, m >> ELSE toString(m),
      ampm    |-> IF h >= 12 THEN "PM" ELSE "AM" ]

\* The 12-hour to 24-hour conversion of checkForAlarms and of the schedulers.
ResolveHoursNoMidnight(time) ==
    IF time.ampm = "PM" /\ parseInt(time.hours) < 12 THEN parseInt(time.hours) + 12
    ELSE parseInt(time.hours)

ResolveHours(time) ==
    IF time.ampm = "PM" /\ parseInt(time.hours) < 12 THEN parseInt(time.hours) + 12
    ELSE IF time.ampm = "AM" /\ parseInt(time.hours) = 12 THEN 0
    ELSE parseInt(time.hours)

ResolveMinutes(time) == parseInt(time.minutes)

\* ------------------------------------------------------------ list helpers
Ids(list) == { list[i].id : i \in 1..Len(list) }

Index(list, id) ==
    IF id \in Ids(list) THEN CHOOSE i \in 1..Len(list) : list[i].id = id ELSE 0

IsActive(alarm) == alarm.isActive

\* alarms.filter(alarm => alarm.isActive)
ActiveFilterNone(alarms) == alarms

ActiveFilter(alarms) == SelectSeq(alarms, IsActive)

\* ------------------------------------------------------- trigger evaluator
\* The two tests of checkForAlarms for one alarm against `now`.
TimeMatchesWindow(alarm, now) ==
    /\ ResolveHours(alarm.time) = now.h
    /\ ResolveMinutes(alarm.time) \in { now.m - 1, now.m, now.m + 1 }

TimeMatches(alarm, now) ==
    /\ ResolveHours(alarm.time) = now.h
    /\ ResolveMinutes(alarm.time) = now.m

DayMatchesAny(alarm, now) == TRUE

DayMatches(alarm, now) ==
    alarm.days = {} \/ Weekday(now) \in alarm.days

Due(alarm, now) == TimeMatches(alarm, now) /\ DayMatches(alarm, now)

\* The `for (const alarm of activeAlarms)` loop, run from position i to the
\* next alarm it triggers (0: the loop ends).
NextDueStopAtFirst(active, i, now) ==
    IF i = 1 /\ \E j \in 1..Len(active) : Due(active[j], now)
    THEN CHOOSE j \in 1..Len(active) :
            /\ Due(active[j], now)
            /\ \A k \in 1..(j - 1) : ~Due(active[k], now)
    ELSE 0

NextDue(active, i, now) ==
    IF \E j \in i..Len(active) : Due(active[j], now)
    THEN CHOOSE j \in i..Len(active) :
            /\ Due(active[j], now)
            /\ \A k \in i..(j - 1) : ~Due(active[k], now)
    ELSE 0

\* The map of deactivateOneTimeAlarm over the list it read.
DeactivateMapAllOneShot(alarms, alarm) ==
    [ i \in 1..Len(alarms) |->
        IF alarms[i].days = {}
        THEN [ alarms[i] EXCEPT !.isActive = FALSE ]
        ELSE alarms[i] ]

DeactivateMap(alarms, alarm) ==
    [ i \in 1..Len(alarms) |->
        IF alarms[i].id = alarm.id /\ alarms[i].days = {}
        THEN [ alarms[i] EXCEPT !.isActive = FALSE ]
        ELSE alarms[i] ]

\* `if (alarm.days.length === 0) await deactivateOneTimeAlarm(alarm)`
NeedsDeactivation(alarm) == alarm.days = {}

IdleEv ==
    [ pc |-> "idle", alarms |-> << >>, now |-> NoTime, idx |-> 0,
      alarmTriggered |-> FALSE, dAlarms |-> << >>, fired |-> << >>, writes |-> 0,
      failed |-> {}, ioError |-> FALSE, overtaken |-> 0 ]

activeAlarms(p) == ActiveFilter(ev[p].alarms)
CurrentAlarm(p) == activeAlarms(p)[ev[p].idx]

AllIdle == user.pc = "idle" /\ \A p \in Evaluators : ev[p].pc = "idle"

\* A handler starts: alone when operations are serial, else while no
\* operation in flight has been overtaken MaxOverlap times already.
MayStart ==
    IF serial THEN AllIdle
    ELSE /\ user.pc # "idle" => user.overtaken < MaxOverlap
         /\ \A p \in Evaluators : ev[p].pc # "idle" => ev[p].overtaken < MaxOverlap

Overtake(e) == IF e.pc = "idle" THEN e ELSE [ e EXCEPT !.overtaken = @ + 1 ]
OvertakeEv == [ p \in Evaluators |-> Overtake(ev[p]) ]

\* The loop continues at position i with locals e: either it reaches a due
\* alarm and calls triggerAlarmNotification (the notification is posted), or
\* it falls off the end and checkForAlarms returns.
LoopFrom(p, e, i) ==
    LET active == ActiveFilter(e.alarms)
        j == NextDue(active, i, e.now)
    IN  IF j = 0
        THEN /\ ev' = [ ev EXCEPT ![p] = [ e EXCEPT !.pc = "done" ] ]
             /\ UNCHANGED << firedSince, firedThisMinute >>
        ELSE /\ ev' = [ ev EXCEPT ![p] =
                        [ e EXCEPT !.pc = "trigger", !.idx = j,
                                   !.fired = Append(@, active[j].id) ] ]
             /\ firedSince' = firedSince \cup { active[j].id }
             /\ firedThisMinute' = firedThisMinute \cup { active[j].id }

\* checkForAlarms is entered: AsyncStorage.getItem('alarms') is issued.
StartCheck(p) ==
    /\ ev[p].pc = "idle"
    /\ MayStart
    /\ ev' = [ OvertakeEv EXCEPT ![p] =
                [ IdleEv EXCEPT !.pc = "getItem", !.alarms = store ] ]
    /\ user' = Overtake(user)
    /\ UNCHANGED << isWeb, ring, serial, clock, store, uiAlarms, nextId,
                    webAlarmTimeouts, timeouts, firedSince, firedThisMinute >>

\* The read resolves: `now` is taken and the loop runs to its first await.
ResumeCheck(p) ==
    /\ ev[p].pc = "getItem"
    /\ LoopFrom(p, [ ev[p] EXCEPT !.now = clock ], 1)
    /\ UNCHANGED << isWeb, ring, serial, clock, store, uiAlarms, nextId, user,
                    webAlarmTimeouts, timeouts >>

\* triggerAlarmNotification resolves: a one-shot alarm enters
\* deactivateOneTimeAlarm (its getItem is issued), a recurring one lets the
\* loop go on.
AfterTrigger(p) ==
    /\ ev[p].pc = "trigger"
    /\ LET e == [ ev[p] EXCEPT !.alarmTriggered = TRUE ]
       IN  IF NeedsDeactivation(CurrentAlarm(p))
           THEN /\ ev' = [ ev EXCEPT ![p] =
                           [ e EXCEPT !.pc = "deactRead", !.dAlarms = store ] ]
                /\ UNCHANGED << firedSince, firedThisMinute >>
           ELSE LoopFrom(p, e, e.idx + 1)
    /\ UNCHANGED << isWeb, ring, serial, clock, store, uiAlarms, nextId, user,
                    webAlarmTimeouts, timeouts >>

\* triggerAlarmNotification (native) fails: scheduleNotificationAsync throws,
\* the catch logs and returns null. checkForAlarms does not look at the
\* result and goes on as after a delivery. No notification was posted, so
\* the entry LoopFrom appended to `fired` is taken back; firedSince and
\* firedThisMinute keep the call.
AfterTriggerFailedAbort(p) ==
    /\ ~isWeb
    /\ ev[p].pc = "trigger"
    /\ ev' = [ ev EXCEPT ![p].pc = "done",
                         ![p].fired = SubSeq(@, 1, Len(@) - 1),
                         ![p].failed = @ \cup { CurrentAlarm(p).id } ]
    /\ UNCHANGED << isWeb, ring, serial, clock, store, uiAlarms, nextId, user,
                    webAlarmTimeouts, timeouts, firedSince, firedThisMinute >>

AfterTriggerFailed(p) ==
    /\ ~isWeb
    /\ ev[p].pc = "trigger"
    /\ LET a == CurrentAlarm(p)
           e == [ ev[p] EXCEPT !.alarmTriggered = TRUE,
                               !.fired = SubSeq(@, 1, Len(@) - 1),
                               !.failed = @ \cup { a.id } ]
       IN  IF NeedsDeactivation(a)
           THEN /\ ev' = [ ev EXCEPT ![p] =
                           [ e EXCEPT !.pc = "deactRead", !.dAlarms = store ] ]
                /\ UNCHANGED << firedSince, firedThisMinute >>
           ELSE LoopFrom(p, e, e.idx + 1)
    /\ UNCHANGED << isWeb, ring, serial, clock, store, uiAlarms, nextId, user,
                    webAlarmTimeouts, timeouts >>

\* deactivateOneTimeAlarm's read resolves: the mapped list is written back.
\* (The list it read is never the missing key: the fired alarm was stored.)
DeactWrite(p) ==
    /\ ev[p].pc = "deactRead"
    /\ store' = DeactivateMap(ev[p].dAlarms, CurrentAlarm(p))
    /\ ev' = [ ev EXCEPT ![p].pc = "deactWritten", ![p].writes = @ + 1 ]
    /\ UNCHANGED << isWeb, ring, serial, clock, uiAlarms, nextId, user,
                    webAlarmTimeouts, timeouts, firedSince, firedThisMinute >>

\* The write resolves and the loop goes on with the next active alarm.
AfterDeact(p) ==
    /\ ev[p].pc = "deactWritten"
    /\ LoopFrom(p, ev[p], ev[p].idx + 1)
    /\ UNCHANGED << isWeb, ring, serial, clock, store, uiAlarms, nextId, user,
                    webAlarmTimeouts, timeouts >>

\* checkForAlarms' AsyncStorage.getItem rejects: the catch of checkForAlarms
\* logs and returns false.
ReadFailed(p) ==
    /\ ev[p].pc = "getItem"
    /\ ev' = [ ev EXCEPT ![p].pc = "done", ![p].alarms = << >>,
                         ![p].ioError = TRUE ]
    /\ UNCHANGED << isWeb, ring, serial, clock, store, uiAlarms, nextId, user,
                    webAlarmTimeouts, timeouts, firedSince, firedThisMinute >>

\* deactivateOneTimeAlarm's getItem rejects: its own catch logs, it returns
\* and the loop of checkForAlarms goes on.
DeactReadFailed(p) ==
    /\ ev[p].pc = "deactRead"
    /\ LoopFrom(p, [ ev[p] EXCEPT !.ioError = TRUE, !.dAlarms = << >> ],
                ev[p].idx + 1)
    /\ UNCHANGED << isWeb, ring, serial, clock, store, uiAlarms, nextId, user,
                    webAlarmTimeouts, timeouts >>

\* deactivateOneTimeAlarm's setItem rejects: the stored list stays, the
\* catch logs and the caller resumes as after a write.
DeactWriteFailed(p) ==
    /\ ev[p].pc = "deactRead"
    /\ ev' = [ ev EXCEPT ![p].pc = "deactWritten", ![p].ioError = TRUE ]
    /\ UNCHANGED << isWeb, ring, serial, clock, store, uiAlarms, nextId, user,
                    webAlarmTimeouts, timeouts, firedSince, firedThisMinute >>

\* The caller (background task, manualCheckForAlarms) takes the result.
Return(p) ==
    /\ ev[p].pc = "done"
    /\ ev' = [ ev EXCEPT ![p] = IdleEv ]
    /\ UNCHANGED << isWeb, ring, serial, clock, store, uiAlarms, nextId, user,
                    webAlarmTimeouts, timeouts, firedSince, firedThisMinute >>

\* ----------------------------------------------------------------- arming
\* scheduleWebAlarm: the instant the setTimeout is aimed at.
DaysToAdd(dayOfWeek, days) ==
    CHOOSE k \in 1..7 :
        /\ ((dayOfWeek + k) % 7 \in days \/ k = 7)
        /\ \A l \in 1..(k - 1) : (dayOfWeek + l) % 7 \notin days

WebTargetIgnoringDays(alarm, now) ==
    LET today == [ day |-> now.day, h |-> ResolveHours(alarm.time),
                   m |-> ResolveMinutes(alarm.time) ]
    IN  IF Abs(today) <= Abs(now) THEN [ today EXCEPT !.day = @ + 1 ] ELSE today

WebTarget(alarm, now) ==
    LET today == [ day |-> now.day, h |-> ResolveHours(alarm.time),
                   m |-> ResolveMinutes(alarm.time) ]
        alarmTime == IF Abs(today) <= Abs(now)
                     THEN [ today EXCEPT !.day = @ + 1 ] ELSE today
    IN  IF alarm.days # {} /\ Weekday(alarmTime) \notin alarm.days
        THEN [ alarmTime EXCEPT !.day = @ + DaysToAdd(Weekday(alarmTime), alarm.days) ]
        ELSE alarmTime

\* scheduleAlarmNotification (native): the alarmDate stored as scheduledTime.
\* setDate is taken within one month.
NativeTargetStrict(alarm, now) ==
    LET today == [ day |-> now.day, h |-> ResolveHours(alarm.time),
                   m |-> ResolveMinutes(alarm.time) ]
    IN  IF Abs(today) < Abs(now) THEN [ today EXCEPT !.day = @ + 1 ] ELSE today

NativeTarget(alarm, now) ==
    LET today == [ day |-> now.day, h |-> ResolveHours(alarm.time),
                   m |-> ResolveMinutes(alarm.time) ]
        alarmDate == IF Abs(today) <= Abs(now)
                     THEN [ today EXCEPT !.day = @ + 1 ] ELSE today
        currentDay == Weekday(now)
    IN  IF /\ alarm.days # {}
           /\ (currentDay \notin alarm.days \/ Abs(alarmDate) <= Abs(now))
        THEN [ alarmDate EXCEPT !.day = now.day + DaysToAdd(currentDay, alarm.days) ]
        ELSE alarmDate

\* The updatedAlarm of scheduleAlarmNotification (native).
WithExactTiming(alarm, now) ==
    [ alarm EXCEPT !.exactHours = ResolveHours(alarm.time),
                   !.exactMinutes = ResolveMinutes(alarm.time),
                   !.scheduledTime = NativeTarget(alarm, now) ]

\* The map of updateAlarmInStorage over the list it read.
UpdateMap(alarms, updatedAlarm) ==
    [ i \in 1..Len(alarms) |->
        IF alarms[i].id = updatedAlarm.id THEN updatedAlarm ELSE alarms[i] ]

\* ------------------------------------------------------------ user handlers
NoAlarm ==
    [ id |-> 0, time |-> formatTime(0, 0), days |-> {}, isActive |-> FALSE,
      mode |-> "TINY_BUTTON", qrCodeId |-> 0, notificationId |-> 0,
      exactHours |-> -1, exactMinutes |-> -1, scheduledTime |-> NoTime ]

\* The newAlarm object of saveAlarm.
NewAlarm(id, h, m, days, active) ==
    [ id |-> id, time |-> formatTime(h, m), days |-> days, isActive |-> active,
      mode |-> "TINY_BUTTON", qrCodeId |-> 0, notificationId |-> 0,
      exactHours |-> -1, exactMinutes |-> -1, scheduledTime |-> NoTime ]

\* An entry of webAlarmTimeouts: the timer's target, whether the timeout is
\* still pending, and the alarm its callback closes over.
NoTimer == [ target |-> NoTime, live |-> FALSE, alarm |-> NoAlarm ]

IdleUser ==
    [ pc |-> "idle", op |-> "none", alarm |-> NoAlarm, snap |-> << >>,
      overtaken |-> 0 ]

\* cancelWebAlarm, and the web branch of scheduleAlarmNotification.
cancelWebAlarm(id) == [ webAlarmTimeouts EXCEPT ![id] = NoTimer ]

scheduleWeb(alarm) ==
    [ webAlarmTimeouts EXCEPT ![alarm.id] =
        [ target |-> WebTarget(alarm, clock), live |-> TRUE, alarm |-> alarm ] ]

\* The pending timeout the table entry of alarm id refers to, and
\* win.clearTimeout of it (no entry, or a timeout that has run: nothing).
TimeoutOf(id) == [ id |-> id, target |-> webAlarmTimeouts[id].target ]

clearNothing(id) == timeouts

clearTimeout(id) == timeouts \ { TimeoutOf(id) }

\* win.setTimeout in scheduleWebAlarm, after cancelWebAlarm.
setTimeout(alarm) ==
    clearTimeout(alarm.id) \cup { [ id |-> alarm.id, target |-> WebTarget(alarm, clock) ] }

\* HomeScreen.toggleAlarm up to its first await: the list held by the screen
\* is mapped, set as the new screen state and written to the store.
ToggleMap(alarms, id) ==
    [ i \in 1..Len(alarms) |->
        IF alarms[i].id = id
        THEN [ alarms[i] EXCEPT !.isActive = ~alarms[i].isActive ]
        ELSE alarms[i] ]

ToggleAlarm(id) ==
    /\ user.pc = "idle"
    /\ MayStart
    /\ id \in Ids(uiAlarms)
    /\ LET updatedAlarms == ToggleMap(uiAlarms, id)
           updatedAlarm == updatedAlarms[Index(updatedAlarms, id)]
       IN  /\ uiAlarms' = updatedAlarms
           /\ store' = updatedAlarms
           /\ user' = [ IdleUser EXCEPT !.pc = "toggled", !.op = "toggle",
                                        !.alarm = updatedAlarm ]
           /\ IF updatedAlarm.isActive
              THEN /\ firedSince' = firedSince \ { id }
                   /\ firedThisMinute' = firedThisMinute \ { id }
              ELSE UNCHANGED << firedSince, firedThisMinute >>
    /\ ev' = OvertakeEv
    /\ UNCHANGED << isWeb, ring, serial, clock, nextId, webAlarmTimeouts, timeouts >>

\* scheduleAlarmNotification(alarm) up to its first await, leaving the user
\* handler at `after` when nothing is awaited.
Arm(alarm, after) ==
    IF isWeb
    THEN /\ webAlarmTimeouts' = scheduleWeb(alarm)
         /\ timeouts' = setTimeout(alarm)
         /\ user' = after
    ELSE /\ user' = [ user EXCEPT !.pc = "updRead",
                                  !.alarm = WithExactTiming(alarm, clock),
                                  !.snap = store ]
         /\ UNCHANGED << webAlarmTimeouts, timeouts >>

\* cancelAlarmNotification(alarm): no code path assigns notificationId, so
\* `if (alarm.notificationId)` fails and the native branch does nothing.
Disarm(alarm) ==
    IF isWeb
    THEN /\ webAlarmTimeouts' = cancelWebAlarm(alarm.id)
         /\ timeouts' = clearTimeout(alarm.id)
    ELSE UNCHANGED << webAlarmTimeouts, timeouts >>

AfterToggle ==
    /\ user.pc = "toggled"
    /\ IF user.alarm.isActive
       THEN Arm(user.alarm, IdleUser)
       ELSE Disarm(user.alarm) /\ user' = IdleUser
    /\ UNCHANGED << isWeb, ring, serial, clock, store, uiAlarms, nextId, ev,
                    firedSince, firedThisMinute >>

\* HomeScreen.deleteAlarm up to its first await.
DeleteFilter(alarms, id) == SelectSeq(alarms, LAMBDA a : a.id # id)

DeleteAlarm(id) ==
    /\ user.pc = "idle"
    /\ MayStart
    /\ id \in Ids(uiAlarms)
    /\ LET alarmToDelete == uiAlarms[Index(uiAlarms, id)]
           updatedAlarms == DeleteFilter(uiAlarms, id)
       IN  /\ uiAlarms' = updatedAlarms
           /\ store' = updatedAlarms
           /\ user' = [ IdleUser EXCEPT !.pc = "deleted", !.op = "delete",
                                        !.alarm = alarmToDelete ]
    /\ ev' = OvertakeEv
    /\ UNCHANGED << isWeb, ring, serial, clock, nextId, webAlarmTimeouts, timeouts,
                    firedSince, firedThisMinute >>

AfterDelete ==
    /\ user.pc = "deleted"
    /\ IF user.alarm.isActive
       THEN Disarm(user.alarm)
       ELSE UNCHANGED << webAlarmTimeouts, timeouts >>
    /\ user' = IdleUser
    /\ UNCHANGED << isWeb, ring, serial, clock, store, uiAlarms, nextId, ev,
                    firedSince, firedThisMinute >>

\* HomeScreen gains focus: loadAlarms issues its read.
LoadAlarms ==
    /\ user.pc = "idle"
    /\ MayStart
    /\ user' = [ IdleUser EXCEPT !.pc = "loading", !.op = "load", !.snap = store ]
    /\ ev' = OvertakeEv
    /\ UNCHANGED << isWeb, ring, serial, clock, store, uiAlarms, nextId,
                    webAlarmTimeouts, timeouts, firedSince, firedThisMinute >>

LoadResume ==
    /\ user.pc = "loading"
    /\ uiAlarms' = user.snap
    /\ user' = IdleUser
    /\ UNCHANGED << isWeb, ring, serial, clock, store, nextId, ev,
                    webAlarmTimeouts, timeouts, firedSince, firedThisMinute >>

\* CreateAlarmScreen.saveAlarm (modes other than QR_CODE): the read of the
\* existing list is issued.
CreateAlarm(h, m, days, active) ==
    /\ user.pc = "idle"
    /\ MayStart
    /\ nextId <= MaxAlarms
    /\ user' = [ pc |-> "createRead", op |-> "create", snap |-> store,
                 overtaken |-> 0,
                 alarm |-> [ id |-> nextId, time |-> formatTime(h, m),
                             days |-> days, isActive |-> active,
                             mode |-> "TINY_BUTTON", qrCodeId |-> 0, notificationId |-> 0,
                             exactHours |-> -1, exactMinutes |-> -1,
                             scheduledTime |-> NoTime ] ]
    /\ nextId' = nextId + 1
    /\ ev' = OvertakeEv
    /\ UNCHANGED << isWeb, ring, serial, clock, store, uiAlarms,
                    webAlarmTimeouts, timeouts, firedSince, firedThisMinute >>

CreateWrite ==
    /\ user.pc = "createRead"
    /\ store' = Append(user.snap, user.alarm)
    /\ user' = [ user EXCEPT !.pc = "createWritten" ]
    /\ UNCHANGED << firedSince, firedThisMinute >>
    /\ UNCHANGED << isWeb, ring, serial, clock, uiAlarms, nextId, ev, webAlarmTimeouts, timeouts >>

AfterCreate ==
    /\ user.pc = "createWritten"
    /\ IF user.alarm.isActive
       THEN Arm(user.alarm, [ user EXCEPT !.pc = "navigate" ])
       ELSE /\ user' = [ user EXCEPT !.pc = "navigate" ]
            /\ UNCHANGED << webAlarmTimeouts, timeouts >>
    /\ UNCHANGED << isWeb, ring, serial, clock, store, uiAlarms, nextId, ev,
                    firedSince, firedThisMinute >>

\* updateAlarmInStorage's read resolves: the mapped list is written back.
UpdWrite ==
    /\ user.pc = "updRead"
    /\ store' = UpdateMap(user.snap, user.alarm)
    /\ user' = IF user.op = "create" THEN [ user EXCEPT !.pc = "navigate" ]
               ELSE IdleUser
    /\ UNCHANGED << isWeb, ring, serial, clock, uiAlarms, nextId, ev,
                    webAlarmTimeouts, timeouts, firedSince, firedThisMinute >>

\* navigation.navigate('Home'): the focus effect runs loadAlarms.
NavigateHome ==
    /\ user.pc = "navigate"
    /\ user' = [ user EXCEPT !.pc = "loading", !.op = "load", !.snap = store,
                              !.alarm = NoAlarm ]
    /\ UNCHANGED << isWeb, ring, serial, clock, store, uiAlarms, nextId, ev,
                    webAlarmTimeouts, timeouts, firedSince, firedThisMinute >>

\* A second press of the save button, queued behind the first, is handled
\* when the first saveAlarm has run to navigate('Home') (on web AsyncStorage
\* resolves without leaving the event): Date.now() still returns the value
\* the first call took as id.
CreateAlarmSameMs(h, m, days, active) ==
    /\ isWeb
    /\ user.pc = "navigate"
    /\ user.op = "create"
    /\ Len(store) <= MaxAlarms
    /\ user' = [ IdleUser EXCEPT
                    !.pc = "createRead", !.op = "create", !.snap = store,
                    !.alarm = NewAlarm(user.alarm.id, h, m, days, active) ]
    /\ UNCHANGED << isWeb, ring, serial, clock, store, uiAlarms, nextId, ev,
                    webAlarmTimeouts, timeouts, firedSince, firedThisMinute >>

\* ------------------------------------------------------------- QR_CODE mode
\* CreateAlarmScreen.saveAlarm with selectedMode QR_CODE: the screen navigates
\* to QRCodeSetup and the read of the existing list is issued.
CreateQRAlarm(h, m, days, active) ==
    /\ user.pc = "idle"
    /\ MayStart
    /\ nextId <= MaxAlarms
    /\ user' = [ IdleUser EXCEPT
                    !.pc = "qrCreateRead", !.op = "createQR", !.snap = store,
                    !.alarm = [ NewAlarm(nextId, h, m, days, active)
                                    EXCEPT !.mode = "QR_CODE" ] ]
    /\ nextId' = nextId + 1
    /\ ev' = OvertakeEv
    /\ UNCHANGED << isWeb, ring, serial, clock, store, uiAlarms,
                    webAlarmTimeouts, timeouts, firedSince, firedThisMinute >>

\* The alarm is appended and written; saveAlarm returns without arming and
\* the user is on the QRCodeSetup screen.
QRCreateWrite ==
    /\ user.pc = "qrCreateRead"
    /\ store' = Append(user.snap, user.alarm)
    /\ user' = [ user EXCEPT !.pc = "qrSetup" ]
    /\ UNCHANGED << isWeb, ring, serial, clock, uiAlarms, nextId, ev,
                    webAlarmTimeouts, timeouts, firedSince, firedThisMinute >>

\* saveQRCodeAndReturn: the scanned code is stored under its own key, then
\* the alarm list is read.
SaveQRCode ==
    /\ user.pc = "qrSetup"
    /\ user' = [ user EXCEPT !.pc = "qrRead", !.snap = store ]
    /\ UNCHANGED << isWeb, ring, serial, clock, store, uiAlarms, nextId, ev,
                    webAlarmTimeouts, timeouts, firedSince, firedThisMinute >>

\* The map of saveQRCodeAndReturn over the list it read.
QRCodeMap(alarms, alarmId, qrId) ==
    [ i \in 1..Len(alarms) |->
        IF alarms[i].id = alarmId
        THEN [ alarms[i] EXCEPT !.mode = "QR_CODE", !.qrCodeId = qrId ]
        ELSE alarms[i] ]

\* The mapped list is written and the screen goes back.
QRWrite ==
    /\ user.pc = "qrRead"
    /\ store' = QRCodeMap(user.snap, user.alarm.id, user.alarm.id)
    /\ user' = [ user EXCEPT !.pc = "navigate" ]
    /\ UNCHANGED << isWeb, ring, serial, clock, uiAlarms, nextId, ev,
                    webAlarmTimeouts, timeouts, firedSince, firedThisMinute >>

\* The user leaves QRCodeSetup with the back button, no code saved.
LeaveQRSetup ==
    /\ user.pc = "qrSetup"
    /\ user' = [ user EXCEPT !.pc = "navigate" ]
    /\ UNCHANGED << isWeb, ring, serial, clock, store, uiAlarms, nextId, ev,
                    webAlarmTimeouts, timeouts, firedSince, firedThisMinute >>

\* ------------------------------------------------------- timers and clock
\* The setTimeout callback of scheduleAlarmNotification (web):
\* triggerAlarmNotification(scheduledAlarm), nothing else.
TimerFire(id) ==
    /\ isWeb
    /\ MayStart
    /\ webAlarmTimeouts[id].live
    /\ Abs(webAlarmTimeouts[id].target) <= Abs(clock)
    /\ webAlarmTimeouts' = [ webAlarmTimeouts EXCEPT ![id].live = FALSE ]
    /\ timeouts' = timeouts \ { TimeoutOf(id) }
    /\ firedSince' = firedSince \cup { id }
    /\ ev' = OvertakeEv
    /\ user' = Overtake(user)
    /\ UNCHANGED << isWeb, ring, serial, clock, store, uiAlarms, nextId,
                    firedThisMinute >>

\* The clock moves to the next observed minute, between operations (an
\* operation ends in the minute it starts in); a timer that is due has fired
\* before.
NextInstant(t) ==
    IF \E c \in ClockTimes : (c[1] * 60) + c[2] > (t.h * 60) + t.m
    THEN LET c == CHOOSE c \in ClockTimes :
                    /\ (c[1] * 60) + c[2] > (t.h * 60) + t.m
                    /\ \A d \in ClockTimes :
                          (d[1] * 60) + d[2] > (t.h * 60) + t.m
                             => (d[1] * 60) + d[2] >= (c[1] * 60) + c[2]
         IN  [ day |-> t.day, h |-> c[1], m |-> c[2] ]
    ELSE LET c == CHOOSE c \in ClockTimes :
                    \A d \in ClockTimes : (d[1] * 60) + d[2] >= (c[1] * 60) + c[2]
         IN  [ day |-> t.day + 1, h |-> c[1], m |-> c[2] ]

AdvanceClock ==
    /\ AllIdle
    /\ NextInstant(clock).day <= MaxDay
    /\ \A id \in AlarmIds :
          webAlarmTimeouts[id].live => Abs(webAlarmTimeouts[id].target) > Abs(clock)
    /\ clock' = NextInstant(clock)
    /\ firedThisMinute' = {}
    /\ UNCHANGED << isWeb, ring, serial, store, uiAlarms, nextId, ev, user,
                    webAlarmTimeouts, timeouts, firedSince >>

\* ------------------------------------------------- ringing and challenges
\* AlarmMode values the create screen offers (CHALLENGE_MODES).
Modes == { "TINY_BUTTON", "QUIZ", "CAPTCHA", "QR_CODE" }
\* Platform.OS
OSes == { "android", "ios", "web" }
\* QUIZ_QUESTIONS, by index; 0 stands for the null of useState.
Questions == { 1, 2 }
\* Payloads a scanned QR code may carry; 0 stands for the empty string.
Payloads == { 1, 2 }

ChallengeScreens ==
    { "FindButtonChallenge", "QuizChallenge", "CaptchaChallenge", "QRCodeChallenge" }

\* No alarm is ringing: the app shows Home.
NoRing ==
    [ os |-> "android", mode |-> "TINY_BUTTON", screen |-> "Home",
      delivered |-> FALSE,
      sound |-> FALSE,          \* alarm sound and vibration running
      handle |-> 0,             \* id scheduleNotificationAsync returned (0: none)
      notificationId |-> 0,     \* alarm.notificationId of the route params (0: undefined)
      dismissed |-> {},         \* handles given to dismissNotificationAsync
      success |-> FALSE,        \* history: a challenge success signal was received
      via |-> "none",           \* history: the handler that navigated last
      backBlocked |-> FALSE,    \* hardwareBackPress listener registered
      generated |-> 0,          \* captcha: generateCaptcha results shown so far
      attempts |-> 0,           \* captcha: the attempts state
      wrongOnShown |-> 0,       \* history: wrong submissions against the shown captcha
      currentQuestion |-> 0,    \* quiz: the question shown
      answered |-> FALSE,       \* quiz: an option was selected
      positioned |-> FALSE,     \* find button: generateButtonPositions has run
      tries |-> 0,              \* history: wrong attempts in quiz, scan, fake buttons
      qrCodeId |-> 0,           \* QR: alarm.qrCodeId (0: undefined)
      targetQRData |-> 0,       \* QR: payload loaded from storage
      loading |-> FALSE,        \* QR: loadQRCodeData in flight
      hasPermission |-> "null", \* QR: camera permission state
      scanned |-> FALSE ]       \* QR: the matching code was scanned

\* The navigation by alarm.mode of the notification listeners and of the
\* web branch of triggerAlarmNotification.
RouteAllToRinging(mode) == "AlarmRinging"

Route(mode) ==
    CASE mode = "TINY_BUTTON" -> "FindButtonChallenge"
      [] mode = "QUIZ" -> "QuizChallenge"
      [] mode = "QR_CODE" -> "QRCodeChallenge"
      [] OTHER -> "AlarmRinging"

\* The state a screen has when it is mounted: its useState initial values
\* and its mount effect, which on the non-Android branch returns after
\* starting the vibration interval.
Mounted(r, screen) ==
    LET r0 == [ r EXCEPT !.screen = screen, !.sound = TRUE ]
    IN  CASE screen = "AlarmRinging" ->
               [ r0 EXCEPT !.backBlocked = TRUE ]
          [] screen = "FindButtonChallenge" ->
               IF r.os = "android"
               THEN [ r0 EXCEPT !.positioned = TRUE, !.backBlocked = TRUE ]
               ELSE [ r0 EXCEPT !.positioned = FALSE, !.backBlocked = FALSE ]
          [] screen = "QuizChallenge" ->
               IF r.os = "android"
               THEN [ r0 EXCEPT !.answered = FALSE, !.backBlocked = TRUE ]
               ELSE [ r0 EXCEPT !.answered = FALSE, !.currentQuestion = 0,
                                !.backBlocked = FALSE ]
          [] screen = "CaptchaChallenge" ->
               [ r0 EXCEPT !.generated = 1, !.attempts = 0, !.wrongOnShown = 0,
                           !.backBlocked = (r.os = "android") ]
          [] screen = "QRCodeChallenge" ->
               [ r0 EXCEPT !.loading = TRUE, !.hasPermission = "null",
                           !.targetQRData = 0, !.scanned = FALSE,
                           !.backBlocked = FALSE ]
          [] OTHER -> [ r EXCEPT !.screen = screen ]

RingFrame ==
    UNCHANGED << isWeb, serial, clock, store, uiAlarms, nextId, ev, user,
                 webAlarmTimeouts, timeouts, firedSince, firedThisMinute >>

\* triggerAlarmNotification delivers the alarm and the app navigates by its
\* mode: on web through global.navigation, on native through the
\* notification listeners.  The notification carries the alarm as it was
\* when delivered, without a notificationId; the id the Notifier returns is
\* dropped by checkForAlarms.
RingAlarm ==
    /\ ~ring.delivered
    /\ ring.screen = "Home"
    /\ \E q \in Questions :
          LET r == [ ring EXCEPT !.delivered = TRUE,
                                 !.handle = IF isWeb THEN 0 ELSE 1,
                                 !.notificationId = 0,
                                 !.via = "notification" ]
              m == Mounted(r, Route(ring.mode))
          IN  ring' = IF m.screen = "QuizChallenge" /\ r.os = "android"
                      THEN [ m EXCEPT !.currentQuestion = q ] ELSE m
    /\ RingFrame

\* AlarmRingingScreen.startChallenge
StartChallenge ==
    /\ ring.screen = "AlarmRinging"
    /\ \E q \in Questions :
          LET r == [ ring EXCEPT !.sound = FALSE, !.via = "startChallenge" ]
              target == CASE ring.mode = "TINY_BUTTON" -> "FindButtonChallenge"
                          [] ring.mode = "QUIZ" -> "QuizChallenge"
                          [] ring.mode = "CAPTCHA" -> "CaptchaChallenge"
                          [] OTHER -> "AlarmRinging"
              m == IF target = "AlarmRinging" THEN r ELSE Mounted(r, target)
          IN  ring' = IF m.screen = "QuizChallenge" /\ r.os = "android"
                      THEN [ m EXCEPT !.currentQuestion = q ] ELSE m
    /\ RingFrame

\* startChallenge leaves the ringing screen.
StartChallengeMoves == StartChallenge /\ ring'.screen # "AlarmRinging"

\* AlarmRingingScreen.snoozeAlarm
SnoozeAlarm ==
    /\ ring.screen = "AlarmRinging"
    /\ ring' = [ ring EXCEPT !.sound = FALSE, !.screen = "Home", !.via = "snooze" ]
    /\ RingFrame

\* `if (alarm && alarm.notificationId) Notifications.dismissNotificationAsync(...)`
DismissNotification(r) ==
    IF r.notificationId # 0 THEN r.dismissed \cup { r.notificationId }
    ELSE r.dismissed

\* FindButtonChallengeScreen.handleDismiss: the real button is pressed.
PressRealButton ==
    /\ ring.screen = "FindButtonChallenge"
    /\ ~ring.success
    /\ ring' = [ ring EXCEPT !.sound = FALSE, !.success = TRUE,
                             !.dismissed = DismissNotification(ring) ]
    /\ RingFrame

\* FindButtonChallengeScreen.handleFakeButtonPress: fake buttons exist once
\* generateButtonPositions has run.
PressFakeButton ==
    /\ ring.screen = "FindButtonChallenge"
    /\ ~ring.success
    /\ ring.positioned
    /\ ring.tries < MaxTries
    /\ ring' = [ ring EXCEPT !.tries = @ + 1 ]
    /\ RingFrame

\* The setTimeout of a success handler (find button, quiz, captcha):
\* navigation.navigate('Home').
NavigateAfterSuccess ==
    /\ ring.screen \in { "FindButtonChallenge", "QuizChallenge", "CaptchaChallenge" }
    /\ ring.success
    /\ ring' = [ ring EXCEPT !.screen = "Home", !.via = "success" ]
    /\ RingFrame

\* QUIZ_QUESTIONS[q].correctAnswer of the first questions of the pool.
correctAnswer(q) == IF q = 1 THEN 1 ELSE 2
Options == 0..3

\* QuizChallengeScreen.handleOptionSelect: options are rendered for a
\* non-null currentQuestion and disabled once answered.
HandleOptionSelect(optionIndex) ==
    /\ ring.screen = "QuizChallenge"
    /\ ring.currentQuestion # 0
    /\ ~ring.answered
    /\ IF optionIndex = correctAnswer(ring.currentQuestion)
       THEN ring' = [ ring EXCEPT !.answered = TRUE, !.sound = FALSE,
                                  !.success = TRUE,
                                  !.dismissed = DismissNotification(ring) ]
       ELSE /\ ring.tries < MaxTries
            /\ ring' = [ ring EXCEPT !.answered = TRUE, !.tries = @ + 1 ]
    /\ RingFrame

\* The setTimeout after a wrong quiz answer: a new question is drawn.
QuizReset ==
    /\ ring.screen = "QuizChallenge"
    /\ ring.answered
    /\ ~ring.success
    /\ \E q \in Questions :
          ring' = [ ring EXCEPT !.answered = FALSE, !.currentQuestion = q ]
    /\ RingFrame

\* CaptchaChallengeScreen.submitAnswer.  A captcha text is identified by
\* the number of the generateCaptcha call that made it; 0 is a text that
\* is no captcha.
SubmitAnswer(userInput) ==
    /\ ring.screen = "CaptchaChallenge"
    /\ ~ring.success
    /\ IF userInput = ring.generated
       THEN ring' = [ ring EXCEPT !.sound = FALSE, !.success = TRUE,
                                  !.dismissed = DismissNotification(ring) ]
       ELSE IF ring.attempts >= 2
            THEN /\ ring.generated < MaxCaptchas
                 /\ ring' = [ ring EXCEPT !.generated = @ + 1, !.attempts = 0,
                                          !.wrongOnShown = 0 ]
            ELSE ring' = [ ring EXCEPT !.attempts = @ + 1, !.wrongOnShown = @ + 1 ]
    /\ RingFrame

\* CaptchaChallengeScreen.refreshCaptcha
RefreshCaptcha ==
    /\ ring.screen = "CaptchaChallenge"
    /\ ~ring.success
    /\ ring.generated < MaxCaptchas
    /\ ring' = [ ring EXCEPT !.generated = @ + 1, !.wrongOnShown = 0 ]
    /\ RingFrame

\* AsyncStorage `qrcode_<id>`: the payload saveQRCodeAndReturn stored.
StoredPayload(qrCodeId) == qrCodeId

\* QRCodeChallengeScreen.loadQRCodeData resolves.
QRLoaded ==
    /\ ring.screen = "QRCodeChallenge"
    /\ ring.loading
    /\ ring' = [ ring EXCEPT !.loading = FALSE,
                             !.targetQRData = IF ring.qrCodeId # 0
                                              THEN StoredPayload(ring.qrCodeId)
                                              ELSE 0 ]
    /\ RingFrame

\* BarCodeScanner.requestPermissionsAsync resolves: on mount, or from the
\* "Grant Permission" button of the permission screen.
CameraPermission(granted) ==
    /\ ring.screen = "QRCodeChallenge"
    /\ ring.hasPermission \in { "null", "denied" }
    /\ ring.hasPermission = "denied" => ~ring.loading
    /\ ring' = [ ring EXCEPT !.hasPermission = IF granted THEN "granted" ELSE "denied" ]
    /\ RingFrame

\* QRCodeChallengeScreen.handleBarCodeScanned: the scanner is rendered when
\* loading is over, the permission is granted and nothing has matched yet.
HandleBarCodeScanned(data) ==
    /\ ring.screen = "QRCodeChallenge"
    /\ ~ring.loading
    /\ ring.hasPermission = "granted"
    /\ ~ring.scanned
    /\ IF data = ring.targetQRData
       THEN ring' = [ ring EXCEPT !.scanned = TRUE, !.sound = FALSE, !.success = TRUE ]
       ELSE /\ ring.tries < MaxTries
            /\ ring' = [ ring EXCEPT !.tries = @ + 1 ]
    /\ RingFrame

\* The OK button of the "Alarm Dismissed" alert.
QRAlertOK ==
    /\ ring.screen = "QRCodeChallenge"
    /\ ring.scanned
    /\ ring' = [ ring EXCEPT !.screen = "Home", !.via = "success" ]
    /\ RingFrame

\* The "Dismiss Alarm" button of the permission screen of
\* QRCodeChallengeScreen.
DismissWithoutCamera ==
    /\ ring.screen = "QRCodeChallenge"
    /\ ~ring.loading
    /\ ring.hasPermission = "denied"
    /\ ring' = [ ring EXCEPT !.sound = FALSE, !.screen = "Home", !.via = "dismissButton" ]
    /\ RingFrame

\* ------------------------------------------------------------ specification
InitCommon ==
    /\ isWeb \in BOOLEAN
    /\ clock = [ day |-> 6, h |-> 7, m |-> 29 ]
    /\ store = << >>
    /\ uiAlarms = << >>
    /\ nextId = 1
    /\ ev = [ p \in Evaluators |-> IdleEv ]
    /\ user = IdleUser
    /\ webAlarmTimeouts = [ id \in AlarmIds |-> NoTimer ]
    /\ timeouts = {}
    /\ firedSince = {}
    /\ firedThisMinute = {}
    /\ ring = NoRing

Init == InitCommon /\ serial = FALSE
InitSerial == InitCommon /\ serial = TRUE

Next ==
    \/ \E p \in Evaluators : StartCheck(p)
    \/ \E p \in Evaluators : ResumeCheck(p)
    \/ \E p \in Evaluators : AfterTrigger(p)
    \/ \E p \in Evaluators : DeactWrite(p)
    \/ \E p \in Evaluators : AfterDeact(p)
    \/ \E p \in Evaluators : Return(p)
    \/ \E id \in AlarmIds : ToggleAlarm(id)
    \/ AfterToggle
    \/ \E id \in AlarmIds : DeleteAlarm(id)
    \/ AfterDelete
    \/ LoadAlarms
    \/ LoadResume
    \/ \E a \in PickedAlarms, active \in PickedActive :
          CreateAlarm(a[1], a[2], a[3], active)
    \/ CreateWrite
    \/ AfterCreate
    \/ UpdWrite
    \/ NavigateHome
    \/ \E id \in AlarmIds : TimerFire(id)
    \/ AdvanceClock

Spec == Init /\ [][Next]_vars
SpecSerial == InitSerial /\ [][Next]_vars

\* saveAlarm from its write on, for one alarm armed at one instant: the arming
\* computation and its write-back on their own.
InitArm ==
    /\ isWeb \in BOOLEAN
    /\ serial = TRUE
    /\ clock \in ArmNows
    /\ \E a \in ArmPicked :
          LET alarm == NewAlarm(1, a[1], a[2], a[3], TRUE)
          IN  /\ store = << alarm >>
              /\ user = [ IdleUser EXCEPT !.pc = "createWritten", !.op = "create",
                                           !.alarm = alarm ]
    /\ uiAlarms = << >>
    /\ nextId = 2
    /\ ev = [ p \in Evaluators |-> IdleEv ]
    /\ webAlarmTimeouts = [ id \in AlarmIds |-> NoTimer ]
    /\ timeouts = {}
    /\ firedSince = {}
    /\ firedThisMinute = {}
    /\ ring = NoRing

NextArm ==
    \/ AfterCreate
    \/ UpdWrite
    \/ NavigateHome
    \/ LoadResume

SpecArm == InitArm /\ [][NextArm]_vars

\* The program with alarms of mode QR_CODE created as well.
NextQR ==
    \/ Next
    \/ \E a \in PickedAlarms, active \in PickedActive :
          CreateQRAlarm(a[1], a[2], a[3], active)
    \/ QRCreateWrite
    \/ SaveQRCode
    \/ QRWrite
    \/ LeaveQRSetup

SpecQR == InitSerial /\ [][NextQR]_vars

\* The program with Date.now() as the source of alarm ids: two saveAlarm
\* calls may read the same millisecond.
NextIds ==
    \/ Next
    \/ \E a \in PickedAlarms, active \in PickedActive :
          CreateAlarmSameMs(a[1], a[2], a[3], active)

SpecIds == InitSerial /\ [][NextIds]_vars

\* The program with a Notifier that may fail to post a notification.
NextFail ==
    \/ Next
    \/ \E p \in Evaluators : AfterTriggerFailed(p)

SpecFail == InitSerial /\ [][NextFail]_vars

\* The program with an AsyncStorage whose calls may reject during an
\* evaluate pass.
NextStorage ==
    \/ Next
    \/ \E p \in Evaluators : ReadFailed(p)
    \/ \E p \in Evaluators : DeactReadFailed(p)
    \/ \E p \in Evaluators : DeactWriteFailed(p)

SpecStorage == InitSerial /\ [][NextStorage]_vars

\* saveAlarm for the first alarm, with the time picker at the clock's time.
CreateAlarmAtClock ==
    /\ nextId = 1
    /\ CreateAlarm(clock.h, clock.m, {}, TRUE)

\* One one-shot alarm created for each time of day and evaluated in its
\* minute: the picked time is the clock's, which stands still.
InitTime ==
    /\ isWeb \in BOOLEAN
    /\ serial = TRUE
    /\ \E t \in AllTimes : clock = [ day |-> 6, h |-> t[1], m |-> t[2] ]
    /\ store = << >>
    /\ uiAlarms = << >>
    /\ nextId = 1
    /\ ev = [ p \in Evaluators |-> IdleEv ]
    /\ user = IdleUser
    /\ webAlarmTimeouts = [ id \in AlarmIds |-> NoTimer ]
    /\ timeouts = {}
    /\ firedSince = {}
    /\ firedThisMinute = {}
    /\ ring = NoRing

NextTime ==
    \/ CreateAlarmAtClock
    \/ CreateWrite
    \/ AfterCreate
    \/ UpdWrite
    \/ NavigateHome
    \/ LoadResume
    \/ StartCheck("bg")
    \/ ResumeCheck("bg")
    \/ AfterTrigger("bg")
    \/ DeactWrite("bg")
    \/ AfterDeact("bg")
    \/ Return("bg")

SpecTime == InitTime /\ [][NextTime]_vars

\* One delivered alarm from its notification to its dismissal, for every
\* mode and platform.
InitRing ==
    /\ \E os \in OSes, mode \in Modes, qr \in { 0, 1 } :
          /\ (mode # "QR_CODE") => qr = 0
          /\ ring = [ NoRing EXCEPT !.os = os, !.mode = mode, !.qrCodeId = qr ]
          /\ isWeb = (os = "web")
    /\ serial = TRUE
    /\ clock = [ day |-> 6, h |-> 7, m |-> 30 ]
    /\ store = << >>
    /\ uiAlarms = << >>
    /\ nextId = 1
    /\ ev = [ p \in Evaluators |-> IdleEv ]
    /\ user = IdleUser
    /\ webAlarmTimeouts = [ id \in AlarmIds |-> NoTimer ]
    /\ timeouts = {}
    /\ firedSince = {}
    /\ firedThisMinute = {}

NextRing ==
    \/ RingAlarm
    \/ StartChallenge
    \/ SnoozeAlarm
    \/ PressRealButton
    \/ PressFakeButton
    \/ NavigateAfterSuccess
    \/ \E optionIndex \in Options : HandleOptionSelect(optionIndex)
    \/ QuizReset
    \/ \E userInput \in 0..MaxCaptchas : SubmitAnswer(userInput)
    \/ RefreshCaptcha
    \/ QRLoaded
    \/ \E granted \in BOOLEAN : CameraPermission(granted)
    \/ \E data \in Payloads : HandleBarCodeScanned(data)
    \/ QRAlertOK
    \/ DismissWithoutCamera

SpecRing == InitRing /\ [][NextRing]_vars

\* ------------------------------------------------------------------ claims
Rec(list, id) == list[Index(list, id)]
FiredIds(p) == { ev[p].fired[k] : k \in 1..Len(ev[p].fired) }
InPass(p) == ev[p].pc \notin { "idle", "done" }

\* An evaluate pass delivers alarm id in this step.
DeliveredByEvaluate(id) ==
    \E p \in Evaluators :
        /\ Len(ev'[p].fired) = Len(ev[p].fired) + 1
        /\ ev'[p].fired[Len(ev'[p].fired)] = id

\* The armed web timer of alarm id delivers it in this step.
DeliveredByTimer(id) ==
    /\ webAlarmTimeouts[id].live
    /\ ~webAlarmTimeouts'[id].live
    /\ webAlarmTimeouts'[id].target = webAlarmTimeouts[id].target

\* A step of an evaluate pass or of a timer callback (not of a user handler).
EvaluatorOrTimerStep ==
    \/ ev' # ev /\ user' = user
    \/ \E id \in AlarmIds : DeliveredByTimer(id)

\* C1: a one-shot alarm that has fired (evaluate pass or timer) is persisted
\* inactive once the operation has ended, and nothing delivers it again until
\* the user reactivates it.
C1_FiredOneShotIsOff ==
    AllIdle =>
        \A i \in 1..Len(store) :
            (store[i].days = {} /\ store[i].id \in firedSince) => ~store[i].isActive

C1_NoRedelivery ==
    \A id \in firedSince :
        /\ DeliveredByEvaluate(id) => Rec(store, id).days # {}
        /\ DeliveredByTimer(id) => webAlarmTimeouts[id].alarm.days # {}

C1_OneShotFiresOnce == [](C1_FiredOneShotIsOff) /\ [][C1_NoRedelivery]_vars

\* C2: evaluate passes run one after the other in one clock minute deliver
\* each alarm at most once in total.
C2_OncePerMinute ==
    [][\A id \in firedThisMinute : ~DeliveredByEvaluate(id)]_vars

\* C3: no step of an evaluate pass or of a timer callback turns the persisted
\* isActive of a recurring alarm (days not empty) from true to false.
C3_RecurringStaysActive ==
    [][EvaluatorOrTimerStep =>
        \A i \in 1..Len(store) :
            ( /\ store[i].days # {}
              /\ store[i].isActive
              /\ store[i].id \in Ids(store') )
            => Rec(store', store[i].id).isActive]_vars

\* C4: at the end of a pass, an active recurring alarm whose hour and minute
\* equal the pass's hour and minute was delivered exactly when the weekday is
\* in its days, and when delivered it is still active in the store.
C4_RecurringFiresOnItsDays ==
    \A p \in Evaluators :
        ev[p].pc = "done" =>
            \A i \in 1..Len(ev[p].alarms) :
                LET a == ev[p].alarms[i]
                IN  ( /\ a.isActive
                      /\ a.days # {}
                      /\ ResolveHours(a.time) = ev[p].now.h
                      /\ ResolveMinutes(a.time) = ev[p].now.m )
                    => /\ (a.id \in FiredIds(p)) <=> (Weekday(ev[p].now) \in a.days)
                       /\ a.id \in FiredIds(p) => Rec(store, a.id).isActive

C4_Witness ==
    \E p \in Evaluators :
        /\ ev[p].pc = "done"
        /\ Weekday(ev[p].now) = 6
        /\ \E i, j \in 1..Len(ev[p].alarms) :
              /\ ev[p].alarms[i].isActive /\ ev[p].alarms[i].days = {0}
              /\ ev[p].alarms[j].isActive /\ ev[p].alarms[j].days = {6, 0}
              /\ ResolveHours(ev[p].alarms[i].time) = ev[p].now.h
              /\ ResolveHours(ev[p].alarms[j].time) = ev[p].now.h
              /\ ResolveMinutes(ev[p].alarms[i].time) = ev[p].now.m
              /\ ResolveMinutes(ev[p].alarms[j].time) = ev[p].now.m
              /\ ev[p].fired = << ev[p].alarms[j].id >>

\* C5: a finished pass has delivered every alarm that was active and due in
\* the list it read, in the order of that list.
DueInOrder(alarms, now) ==
    LET due == SelectSeq(alarms, LAMBDA a : a.isActive /\ Due(a, now))
    IN  [ k \in 1..Len(due) |-> due[k].id ]

C5_AllDueDeliveredInOrder ==
    \A p \in Evaluators :
        ev[p].pc = "done" => ev[p].fired = DueInOrder(ev[p].alarms, ev[p].now)

C5_Witness ==
    \E p \in Evaluators :
        /\ ev[p].pc = "done"
        /\ Len(ev[p].fired) = 2
        /\ Rec(ev[p].alarms, ev[p].fired[1]).days = {}
        /\ ev[p].writes >= 1

\* C6: a pass in which several alarms fired, one-shot ones among them, has
\* written the store exactly once.
C6_OneCombinedWrite ==
    \A p \in Evaluators :
        ( /\ ev[p].pc = "done"
          /\ Len(ev[p].fired) >= 2
          /\ \E id \in FiredIds(p) : Rec(ev[p].alarms, id).days = {} )
        => ev[p].writes = 1

\* C7: every alarm a pass delivers was active in the list the pass read.
C7_InactiveNeverDelivered ==
    \A p \in Evaluators :
        \A id \in FiredIds(p) : Rec(ev[p].alarms, id).isActive

C7_Witness ==
    \E p \in Evaluators :
        /\ ev[p].pc = "done"
        /\ \E i \in 1..Len(ev[p].alarms) :
              /\ ~ev[p].alarms[i].isActive
              /\ Due(ev[p].alarms[i], ev[p].now)
              /\ ev[p].alarms[i].id \notin FiredIds(p)

\* C8: every alarm a pass delivers has its resolved hour and minute equal to
\* the hour and minute the pass took as now.
C8_ExactMinute ==
    \A p \in Evaluators :
        \A id \in FiredIds(p) :
            /\ ResolveHours(Rec(ev[p].alarms, id).time) = ev[p].now.h
            /\ ResolveMinutes(Rec(ev[p].alarms, id).time) = ev[p].now.m

C8_Witness ==
    \E p \in Evaluators :
        /\ ev[p].pc = "done"
        /\ ev[p].fired = << >>
        /\ \E i \in 1..Len(ev[p].alarms) :
              /\ ev[p].alarms[i].isActive
              /\ DayMatches(ev[p].alarms[i], ev[p].now)
              /\ ResolveHours(ev[p].alarms[i].time) = ev[p].now.h
              /\ ResolveMinutes(ev[p].alarms[i].time) = ev[p].now.m + 1

\* C9: a store write of toggleAlarm, deleteAlarm or the evaluator's
\* deactivation changes the stored record of its own alarm only: no other
\* alarm's record is altered, dropped or brought back by it.
OthersKept(id) ==
    /\ \A o \in Ids(store) \ { id } :
          o \in Ids(store') /\ Rec(store', o) = Rec(store, o)
    /\ Ids(store') \subseteq Ids(store)

C9_NoLostUpdate ==
    [][ /\ (user.pc = "idle" /\ user'.pc \in { "toggled", "deleted" })
            => OthersKept(user'.alarm.id)
        /\ \A p \in Evaluators :
              (ev[p].pc = "deactRead" /\ ev'[p].pc = "deactWritten")
                 => OthersKept(CurrentAlarm(p).id) ]_vars

\* C10: two evaluate passes in flight together have delivered no alarm twice
\* between them.
C10_OverlapDeliversOnce ==
    (InPass("bg") /\ InPass("manual")) => FiredIds("bg") \cap FiredIds("manual") = {}

\* A step of scheduleAlarmNotification or cancelAlarmNotification: the
\* continuation of a handler after its own store write.
ArmOrDisarmStep ==
    /\ user.pc \in { "toggled", "deleted", "createWritten", "updRead" }
    /\ user' # user

\* C11: no step of arm, disarm or evaluate sets the persisted isActive of a
\* one-shot alarm that has fired and is stored inactive back to true.
C11_NoReactivationByArm ==
    [][(ArmOrDisarmStep \/ EvaluatorOrTimerStep) =>
        \A i \in 1..Len(store) :
            ( /\ store[i].days = {}
              /\ store[i].id \in firedSince
              /\ ~store[i].isActive
              /\ store[i].id \in Ids(store') )
            => ~Rec(store', store[i].id).isActive]_vars

\* The instant hour:minute of the alarm on day d.
AtDay(alarm, d) ==
    [ day |-> d, h |-> ResolveHours(alarm.time), m |-> ResolveMinutes(alarm.time) ]

\* C12: the scheduledTime stored for a one-shot alarm is today at its
\* hour:minute when now is strictly before that instant, else tomorrow.
C12_OneShotNextOccurrence ==
    \A i \in 1..Len(store) :
        (store[i].days = {} /\ store[i].scheduledTime # NoTime) =>
            store[i].scheduledTime =
                IF Abs(clock) < Abs(AtDay(store[i], clock.day))
                THEN AtDay(store[i], clock.day)
                ELSE AtDay(store[i], clock.day + 1)

C12_Witness ==
    /\ user.pc = "navigate"
    /\ store[1].days = {}
    /\ Abs(clock) = Abs(AtDay(store[1], clock.day))
    /\ store[1].scheduledTime = AtDay(store[1], clock.day + 1)

\* The nearest date from today on whose weekday is in days and whose instant
\* is strictly after now.
NextOccurrence(alarm, now) ==
    LET ok(d) == d % 7 \in alarm.days /\ Abs(AtDay(alarm, d)) > Abs(now)
        d == CHOOSE d \in now.day..(now.day + 7) :
                ok(d) /\ \A e \in now.day..(d - 1) : ~ok(e)
    IN  AtDay(alarm, d)

\* C13: the scheduledTime stored for a recurring alarm is its hour:minute on
\* the nearest date from today on whose weekday is in days and whose instant
\* is strictly after now.
C13_RecurringNextOccurrence ==
    \A i \in 1..Len(store) :
        (store[i].days # {} /\ store[i].scheduledTime # NoTime) =>
            store[i].scheduledTime = NextOccurrence(store[i], clock)

\* The timeouts pending for alarm id.
HandlesOf(id) == { t \in timeouts : t.id = id }

\* C14: at most one timeout is pending per alarm id.
C14_OneHandlePerAlarm ==
    \A id \in AlarmIds : Cardinality(HandlesOf(id)) <= 1

\* toggleAlarm is about to arm an alarm whose earlier timeout is still pending.
C14_Witness ==
    /\ isWeb
    /\ user.pc = "toggled"
    /\ user.alarm.isActive
    /\ TimeoutOf(user.alarm.id) \in timeouts
    /\ WebTarget(user.alarm, clock) # webAlarmTimeouts[user.alarm.id].target

\* The armed handle of a stored alarm: its entry in the timer table (web) or
\* its persisted notificationId (native); and the trace arming leaves.
HasHandle(alarm) ==
    IF isWeb THEN webAlarmTimeouts[alarm.id] # NoTimer ELSE alarm.notificationId # 0

WasArmed(alarm) ==
    IF isWeb THEN webAlarmTimeouts[alarm.id] # NoTimer ELSE alarm.scheduledTime # NoTime

\* C15: between operations, a stored alarm has an armed handle exactly when
\* it is active and has been armed.
C15_HandleIffActiveAndArmed ==
    AllIdle =>
        \A i \in 1..Len(store) :
            HasHandle(store[i]) <=> (store[i].isActive /\ WasArmed(store[i]))

\* C16: when deleteAlarm(id) returns, the store holds no alarm with that id
\* and no timeout aimed at a later minute is pending for it.
C16_DeleteReleasesAll ==
    [][(user.pc = "deleted" /\ user'.pc = "idle") =>
        /\ user.alarm.id \notin Ids(store')
        /\ \A t \in timeouts' :
              t.id = user.alarm.id => Abs(t.target) <= Abs(clock')]_vars

\* C17: once the user has left the create and QR setup screens, no stored
\* alarm of mode QR_CODE is active without its qrCodeId.
C17_QRActiveHasCode ==
    AllIdle =>
        \A i \in 1..Len(store) :
            (store[i].mode = "QR_CODE" /\ store[i].isActive) => store[i].qrCodeId # 0

\* C18: the stored list holds at most one alarm for each id.
C18_OneAlarmPerId ==
    \A i, j \in 1..Len(store) : store[i].id = store[j].id => i = j

\* C19: an evaluate pass does not deliver an alarm that the store holds
\* with isActive = false at the moment of the delivery, whatever the list
\* read at the start of the pass said.
StoredInactive(id) ==
    \E i \in 1..Len(store) : store[i].id = id /\ ~store[i].isActive

C19_NoDeliveryOfDisarmed ==
    [][\A id \in AlarmIds : DeliveredByEvaluate(id) => ~StoredInactive(id)]_vars

\* C20: when an evaluate pass has run to its end, an alarm whose delivery
\* failed in that pass has not been deactivated: it is still stored active
\* (and so is due again at the next pass of the minute).
C20_FailedDeliveryNotFired ==
    \A p \in Evaluators :
        ev[p].pc = "done" => \A id \in ev[p].failed : ~StoredInactive(id)

\* C21: when an evaluate pass has run to its end, every alarm of the list
\* it read that was active and due at its `now` was either delivered or had
\* its delivery fail: a failed delivery does not end the pass.
DueIdsOf(p) ==
    { a.id : a \in { activeAlarms(p)[k] : k \in 1..Len(activeAlarms(p)) }
           \ { b \in { activeAlarms(p)[k] : k \in 1..Len(activeAlarms(p)) } :
                 ~Due(b, ev[p].now) } }

C21_FailureDoesNotAbortPass ==
    \A p \in Evaluators :
        ev[p].pc = "done" => DueIdsOf(p) = FiredIds(p) \cup ev[p].failed

\* A pass ended in which the first due alarm failed and the second was delivered.
C21_Witness ==
    \E p \in Evaluators :
        /\ ev[p].pc = "done"
        /\ Len(activeAlarms(p)) = 2
        /\ ev[p].failed = { activeAlarms(p)[1].id }
        /\ ev[p].fired = << activeAlarms(p)[2].id >>

\* C22: a pass in which a storage call has failed delivers no further
\* alarm: it does not go on as if the call had succeeded.
C22_StorageFailureEndsPass ==
    [][\A p \in Evaluators :
         ev'[p].ioError => ev'[p].fired = ev[p].fired]_vars

\* C23: a challenge screen is left for Home, and the alarm sound stopped on
\* it, only after the success signal of the challenge was received.
C23_DismissedOnlyOnSuccess ==
    [][(ring.screen \in ChallengeScreens /\ ring.sound)
          => /\ ring'.screen = "Home" => ring.success
             /\ (~ring'.sound /\ ring'.screen = ring.screen) => ring'.success]_vars

\* C24: once the challenge of an alarm delivered through the Notifier has
\* succeeded, dismissNotificationAsync has been called with the id the
\* Notifier returned at delivery.
C24_SuccessDismissesNotification ==
    (ring.success /\ ring.handle # 0) => ring.handle \in ring.dismissed

\* C25: a wrong captcha submission replaces the shown captcha exactly when
\* it is the third wrong submission against that captcha.
WrongSubmission ==
    /\ ring.screen = "CaptchaChallenge"
    /\ ring'.screen = "CaptchaChallenge"
    /\ ~ring'.success
    /\ \/ ring'.attempts # ring.attempts
       \/ ring'.generated # ring.generated /\ ring'.attempts = 0 /\ ring.attempts >= 2

C25_NewCaptchaOnThirdFailure ==
    [][WrongSubmission =>
         (ring'.generated # ring.generated <=> ring.wrongOnShown = 2)]_vars

\* C26: a delivered alarm is on the challenge screen of its own mode or on
\* the ringing screen with a challenge to start: no challenge of another
\* mode is shown, and the ringing screen only holds alarms whose mode
\* startChallenge navigates for.
ChallengeOf(mode) ==
    CASE mode = "TINY_BUTTON" -> "FindButtonChallenge"
      [] mode = "QUIZ" -> "QuizChallenge"
      [] mode = "CAPTCHA" -> "CaptchaChallenge"
      [] mode = "QR_CODE" -> "QRCodeChallenge"

SuccessSignal ==
    \/ PressRealButton
    \/ \E optionIndex \in Options : HandleOptionSelect(optionIndex) /\ ring'.success

C27_ChallengeInitialised ==
    (ring.screen \in { "QuizChallenge", "FindButtonChallenge" } /\ ~ring.success)
        => (ring.answered \/ ENABLED SuccessSignal)

\* C28: when an evaluate pass has run to its end, the stored list has the
\* length and order of the list the pass read, and each alarm is the one
\* read, but for isActive of the one-shot alarms the pass fired.
C28_PassFrame ==
    \A p \in Evaluators :
        ev[p].pc = "done" =>
            /\ Len(store) = Len(ev[p].alarms)
            /\ \A i \in 1..Len(ev[p].alarms) :
                  LET was == ev[p].alarms[i]
                  IN  \/ store[i] = was
                      \/ /\ was.id \in FiredIds(p)
                         /\ was.days = {}
                         /\ store[i] = [ was EXCEPT !.isActive = ~was.isActive ]

\* A pass ended that fired one one-shot alarm and left another one-shot
\* alarm, not due, as it was.
C28_Witness ==
    \E p \in Evaluators :
        /\ ev[p].pc = "done"
        /\ Len(ev[p].alarms) = 2
        /\ Len(ev[p].fired) = 1
        /\ \A i \in 1..2 : ev[p].alarms[i].days = {} /\ ev[p].alarms[i].isActive
        /\ \E i \in 1..2 : ~store[i].isActive
        /\ \E i \in 1..2 : store[i].isActive

\* C29: the text stored for a time picked as hour h and minute m resolves,
\* in the evaluator and in the scheduler, to h and m again.
C29_FormatResolveRoundTrip ==
    /\ \A i \in 1..Len(store) :
          /\ ResolveHours(store[i].time) = clock.h
          /\ ResolveMinutes(store[i].time) = clock.m
          /\ store[i].exactHours # -1 =>
                store[i].exactHours = clock.h /\ store[i].exactMinutes = clock.m
    /\ \A id \in AlarmIds :
          webAlarmTimeouts[id].live =>
              /\ webAlarmTimeouts[id].target.h = clock.h
              /\ webAlarmTimeouts[id].target.m = clock.m
    /\ \A p \in Evaluators :
          (ev[p].pc = "done" /\ Len(ev[p].alarms) = 1 /\ ev[p].alarms[1].isActive)
              => ev[p].fired = << ev[p].alarms[1].id >>

\* The alarm picked at 00:05, stored as "12:05 AM", was armed by the native
\* scheduler and delivered by an evaluate pass.
C29_Witness ==
    /\ clock.h = 0 /\ clock.m = 5
    /\ Len(store) = 1
    /\ store[1].time = [ hours |-> << 1, 2 >>, minutes |-> << 0, 5 >>, ampm |-> "AM" ]
    /\ store[1].exactHours = 0 /\ store[1].exactMinutes = 5
    /\ ev["bg"].pc = "done" /\ ev["bg"].fired = << 1 >>

\* C30: the timer armed by scheduleWebAlarm has a strictly positive delay and
\* is aimed at the alarm's hour:minute on the earliest date strictly after now
\* whose weekday is in days; for empty days, today if still ahead, otherwise
\* tomorrow.
C30_WebTimerNextOccurrence ==
    \A id \in AlarmIds :
        webAlarmTimeouts[id].live =>
            LET alarm == webAlarmTimeouts[id].alarm
                target == webAlarmTimeouts[id].target
            IN  /\ Abs(target) > Abs(clock)
                /\ target =
                      IF alarm.days # {}
                      THEN NextOccurrence(alarm, clock)
                      ELSE IF Abs(AtDay(alarm, clock.day)) > Abs(clock)
                           THEN AtDay(alarm, clock.day)
                           ELSE AtDay(alarm, clock.day + 1)

\* Friday 07:30, an alarm for 7:30 on Fridays and Sundays: the timer is aimed
\* at Sunday.
C30_Witness ==
    /\ isWeb
    /\ clock = [ day |-> 5, h |-> 7, m |-> 30 ]
    /\ webAlarmTimeouts[1].live
    /\ webAlarmTimeouts[1].alarm.days = { 5, 0 }
    /\ ResolveHours(webAlarmTimeouts[1].alarm.time) = 7
    /\ webAlarmTimeouts[1].target = [ day |-> 7, h |-> 7, m |-> 30 ]

====
